---- MODULE Spec2Model ----
(***************************************************************************)
(* Model of plumbum/cli/completion.py: the quoting routine, the completion *)
(* descriptors, the completion decorator, the zsh script generator         *)
(* (--help-zsh-comp) and the dynamic completion handler (--complete).      *)
(*                                                                         *)
(* A Python string is a sequence of atoms.  An atom is a one-character     *)
(* string, or a chunk of text that holds no backslash, no double quote and *)
(* no line break; the three special characters are always atoms of their   *)
(* own.  Text that is compared character by character (descriptions,      *)
(* subcommand names) is written one character per atom; fixed text of the  *)
(* source that is only copied to the output is one atom.  None is the      *)
(* string "None" where a value may be absent.                              *)
(***************************************************************************)
EXTENDS Integers, Sequences, FiniteSets, TLC

BS == "\\"
DQ == "\""
NL == "\n"
None == "None"

\* ------------------------------------------------------------------ bounds
MaxStrLen == 4
MaxArgs == 2
MaxDescs == 2
MaxList == 2
MaxTail == 2
MaxNodes == 4
MaxVaried == 1

\* ----------------------------------------------------------------- helpers
Range(f) == {f[x] : x \in DOMAIN f}

SeqsUpTo(S, n) == UNION {[1..k -> S] : k \in 0..n}

\* every enumeration (iteration order) of a finite set, as a sequence
Orders(S) == {o \in [1..Cardinality(S) -> S] : Range(o) = S}

\* one enumeration of a finite set, for what is sorted before it is used
RECURSIVE SomeOrder(_)
SomeOrder(S) ==
    IF S = {} THEN <<>>
    ELSE LET x == CHOOSE y \in S : TRUE IN <<x>> \o SomeOrder(S \ {x})

RECURSIVE Flatten(_)
Flatten(ss) == IF ss = <<>> THEN <<>> ELSE Head(ss) \o Flatten(Tail(ss))

\* sep.join(parts)
RECURSIVE Join(_, _)
Join(sep, parts) ==
    IF parts = <<>> THEN <<>>
    ELSE IF Len(parts) = 1 THEN parts[1]
    ELSE parts[1] \o sep \o Join(sep, Tail(parts))

\* string.replace(old, new) for a one-character old
RECURSIVE Replace(_, _, _)
Replace(s, old, new) ==
    IF s = <<>> THEN <<>>
    ELSE (IF Head(s) = old THEN new ELSE <<Head(s)>>) \o Replace(Tail(s), old, new)

Count(s, c) == Cardinality({i \in DOMAIN s : s[i] = c})

\* ---------------------------------------------------------------- pre_quote
\* the two replacements in the opposite order
pre_quote_quotes_first(string) ==
    Replace(Replace(string, DQ, <<BS, DQ>>), BS, <<BS, BS>>)

pre_quote(string) ==
    Replace(Replace(string, BS, <<BS, BS>>), DQ, <<BS, DQ>>)

\* ---------------------------------------------------------------- variables
VARIABLES
    qin, qout, qpc,                                   \* a call of pre_quote
    lc_args, lc_kwargs, comp_list, comp_dict_lc,      \* a ListCompletion
    lc_out, lc_pc,
    d_target, d_array, d_dict, d_prior,               \* a use of @completion
    si_completion, main_table, d_pc,
    c_app, c_swfuncs, c_tailargs, c_posargs,          \* a --complete request
    c_queue, c_i, c_log, c_argname, c_current,
    c_completion, c_prefix, c_call, c_stdout, c_error, c_pc,
    g_tree, g_todo, g_func_defs, g_stderr, g_stdout,  \* a --help-zsh-comp run
    g_error, g_pc, g_run, g_first

quoteVars == <<qin, qout, qpc>>
listVars == <<lc_args, lc_kwargs, comp_list, comp_dict_lc, lc_out, lc_pc>>
decoVars == <<d_target, d_array, d_dict, d_prior, si_completion, main_table, d_pc>>
dynVars == <<c_app, c_swfuncs, c_tailargs, c_posargs, c_queue, c_i, c_log, c_argname,
             c_current, c_completion, c_prefix, c_call, c_stdout, c_error, c_pc>>
genVars == <<g_tree, g_todo, g_func_defs, g_stderr, g_stdout, g_error, g_pc, g_run, g_first>>
vars == <<quoteVars, listVars, decoVars, dynVars, genVars>>

\* =================================================================== quoting
QuoteAlphabet == {"a", BS, DQ}

QuoteIdle == qin = <<>> /\ qout = <<>> /\ qpc = "idle"

QuoteInit == qin \in SeqsUpTo(QuoteAlphabet, MaxStrLen) /\ qout = <<>> /\ qpc = "in"

Quote ==
    /\ qpc = "in"
    /\ qout' = pre_quote(qin)
    /\ qpc' = "quoted"
    /\ UNCHANGED <<qin, listVars, decoVars, dynVars, genVars>>

\* ============================================================ ListCompletion
\* A dictionary is the set of its <<key, value>> items (keys unique); its
\* iteration order is not fixed by its content, so a loop over it takes any
\* enumeration of the set.
EmptyDict == {}
Keys(d) == {it[1] : it \in d}
Values(d) == {it[2] : it \in d}
Lookup(d, k) == (CHOOSE it \in d : it[1] = k)[2]

Foo == <<"foo">>
Bar == <<"bar">>
HelpFoo == <<"Help for foo">>
HelpBar == <<"say ", DQ, "x", DQ>>

\* one positional argument: a string s, a list or a tuple l of strings, or a
\* dictionary d
StrItem(v) == [t |-> "str", s |-> v, l |-> <<>>, d |-> {}]
ListItem(v) == [t |-> "list", s |-> <<>>, l |-> v, d |-> {}]
TupleItem(v) == [t |-> "tuple", s |-> <<>>, l |-> v, d |-> {}]
DictItem(m) == [t |-> "dict", s |-> <<>>, l |-> <<>>, d |-> m]

\* what one positional argument of ListCompletion(...) can be
LcItems ==
    {StrItem(Foo), StrItem(Bar)}
    \cup {ListItem(<<>>), ListItem(<<Foo, Bar>>), TupleItem(<<Foo, Bar>>)}
    \cup {DictItem(EmptyDict), DictItem({<<Foo, HelpFoo>>})}

LcKwargs == {EmptyDict, {<<Foo, HelpFoo>>}, {<<Foo, HelpFoo>>, <<Bar, HelpBar>>}}

\* comp_list is None or a sequence of items
NoList == [isNone |-> TRUE, v |-> <<>>]
SomeList(items) == [isNone |-> FALSE, v |-> items]

\* ListCompletion.__init__: the two stored fields
ListCompletionInit(args, kwargs) ==
    IF Len(args) = 1 /\ args[1].t = "list"
    THEN [comp_list |-> SomeList([i \in DOMAIN args[1].l |-> StrItem(args[1].l[i])]),
          comp_dict |-> kwargs]
    ELSE IF Len(args) = 1 /\ args[1].t = "dict"
    THEN [comp_list |-> NoList, comp_dict |-> args[1].d]
    ELSE [comp_list |-> SomeList(args), comp_dict |-> kwargs]

ValuesAction(items) ==
    <<"(">> \o Join(<<" ">>, [i \in DOMAIN items |->
                                <<DQ>> \o pre_quote(items[i].s) \o <<DQ>>])
            \o <<")">>

\* the dictionary's items in the iteration order `order`
DictAction(order) ==
    <<"(">> \o Join(<<" ">>, [i \in DOMAIN order |->
                                <<DQ>> \o pre_quote(order[i][1]) \o <<BS, BS, ":">>
                                       \o pre_quote(order[i][2]) \o <<DQ>>])
            \o <<")">>

\* pre_quote(x) of an x that is no string raises AttributeError
ListBranch(cl) ==
    IF \E i \in DOMAIN cl.v : cl.v[i].t # "str"
    THEN [raised |-> TRUE, text |-> <<>>]
    ELSE [raised |-> FALSE, text |-> ValuesAction(cl.v)]

\* the dictionary branch tested before the list branch
zsh_action_dict_first(cl, order) ==
    IF order # <<>> THEN [raised |-> FALSE, text |-> DictAction(order)]
    ELSE IF ~cl.isNone /\ cl.v # <<>> THEN ListBranch(cl)
    ELSE [raised |-> FALSE, text |-> <<>>]

\* ListCompletion.zsh_action, `order` the iteration order of self.comp_dict
zsh_action(cl, order) ==
    IF ~cl.isNone /\ cl.v # <<>> THEN ListBranch(cl)
    ELSE IF order # <<>> THEN [raised |-> FALSE, text |-> DictAction(order)]
    ELSE [raised |-> FALSE, text |-> <<>>]

ListIdle ==
    /\ lc_args = <<>> /\ lc_kwargs = EmptyDict /\ comp_list = NoList
    /\ comp_dict_lc = EmptyDict /\ lc_out = <<>> /\ lc_pc = "idle"

ListInit ==
    /\ lc_args = <<>> /\ lc_kwargs = EmptyDict /\ comp_list = NoList
    /\ comp_dict_lc = EmptyDict /\ lc_out = <<>> /\ lc_pc = "new"

Construct ==
    /\ lc_pc = "new"
    /\ \E args \in SeqsUpTo(LcItems, MaxArgs), kwargs \in LcKwargs :
         /\ lc_args' = args
         /\ lc_kwargs' = kwargs
         /\ comp_list' = ListCompletionInit(args, kwargs).comp_list
         /\ comp_dict_lc' = ListCompletionInit(args, kwargs).comp_dict
    /\ lc_pc' = "built"
    /\ UNCHANGED <<lc_out, quoteVars, decoVars, dynVars, genVars>>

Render ==
    /\ lc_pc = "built"
    /\ \E order \in Orders(comp_dict_lc) :
         LET r == zsh_action(comp_list, order) IN
           /\ lc_out' = r.text
           /\ lc_pc' = IF r.raised THEN "raised" ELSE "rendered"
    /\ UNCHANGED <<lc_args, lc_kwargs, comp_list, comp_dict_lc, quoteVars, decoVars, dynVars, genVars>>

\* ================================================================ completion
Descriptors == {"D1", "D2"}
DecoKeys == {"k1", "k2"}
NoTarget == [switch |-> FALSE, name |-> None]
DecoTargets == {[switch |-> TRUE, name |-> "arg"]}
               \cup {[switch |-> FALSE, name |-> n] : n \in {"main", "__call__", "helper"}}
DecoDicts == {d \in SUBSET (DecoKeys \X Descriptors) :
                \A x \in d, y \in d : x[1] = y[1] => x = y}

\* a mapping of more than one key is refused
switch_completion_single_key(comp_array, comp_dict) ==
    IF comp_array # <<>> THEN {comp_array[1]}
    ELSE IF Cardinality(comp_dict) = 1 THEN Values(comp_dict)
    ELSE {}

\* deco, the switch branch: the objects `completion` can be bound to; none
\* when TypeError is raised.  next(comp_dict.itervalues()) is the first value
\* in the dictionary's iteration order, which can be any of them.
switch_completion(comp_array, comp_dict) ==
    IF comp_array # <<>> THEN {comp_array[1]}
    ELSE IF comp_dict # EmptyDict THEN Values(comp_dict)
    ELSE {}

\* main_table is func.__plumbum_completion__, empty while the attribute is
\* not set (every reader takes it with a default of dict())
DecoIdle ==
    /\ d_target = NoTarget /\ d_array = <<>> /\ d_dict = EmptyDict /\ d_prior = None
    /\ si_completion = None /\ main_table = EmptyDict /\ d_pc = "idle"

DecoInit ==
    /\ d_target = NoTarget /\ d_array = <<>> /\ d_dict = EmptyDict
    /\ d_prior \in {None} \cup Descriptors
    /\ si_completion = d_prior
    /\ main_table = EmptyDict
    /\ d_pc = "new"

DecoSwitch ==
    /\ d_pc = "new"
    /\ \E func \in DecoTargets, comp_array \in SeqsUpTo(Descriptors, MaxDescs),
          comp_dict \in DecoDicts :
         /\ func.switch
         /\ d_target' = func /\ d_array' = comp_array /\ d_dict' = comp_dict
         /\ IF switch_completion(comp_array, comp_dict) = {}
            THEN d_pc' = "TypeError" /\ UNCHANGED si_completion
            ELSE /\ si_completion' \in switch_completion(comp_array, comp_dict)
                 /\ d_pc' = "returned"
    /\ UNCHANGED <<d_prior, main_table, quoteVars, listVars, dynVars, genVars>>

DecoMain ==
    /\ d_pc = "new"
    /\ \E func \in DecoTargets, comp_array \in SeqsUpTo(Descriptors, MaxDescs),
          comp_dict \in DecoDicts :
         /\ ~func.switch
         /\ d_target' = func /\ d_array' = comp_array /\ d_dict' = comp_dict
         /\ IF func.name \notin {"main", "__call__"} \/ comp_dict = EmptyDict
            THEN d_pc' = "TypeError" /\ UNCHANGED main_table
            ELSE main_table' = comp_dict /\ d_pc' = "returned"
    /\ UNCHANGED <<d_prior, si_completion, quoteVars, listVars, dynVars, genVars>>

\* ================================================= CompletionMixin.complete
\* A value is a string (a one-element v) or a list of strings.
Str(w) == [list |-> FALSE, v |-> <<w>>]
Lst(ws) == [list |-> TRUE, v |-> ws]
NoValue == [list |-> FALSE, v |-> <<>>]

Words == {"pkg1", "pkg2"}

\* the switches of the command, as self._switches_by_name has them:
\* --complete itself, -p/--profile VALUE, --include VALUE (repeatable) and
\* the flag --verbose; the two valued ones carry a dynamic descriptor.
SwitchNames == {<<"complete">>, <<"profile">>, <<"p">>, <<"include">>, <<"verbose">>}
SwitchInfo(name) ==
    CASE name = <<"complete">> ->
           [func |-> "complete", list |-> FALSE, argtype |-> TRUE, completion |-> None]
      [] name \in {<<"profile">>, <<"p">>} ->
           [func |-> "profile", list |-> FALSE, argtype |-> TRUE, completion |-> "Dprofile"]
      [] name = <<"include">> ->
           [func |-> "include", list |-> TRUE, argtype |-> TRUE, completion |-> "Dinclude"]
      [] name = <<"verbose">> ->
           [func |-> "verbose", list |-> FALSE, argtype |-> FALSE, completion |-> None]
\* the switch functions that command lines give, besides --complete
SwitchFuncs == {"profile", "include"}
complete_func == SwitchInfo(<<"complete">>).func
DynamicDescriptors == {"Dprofile", "Dinclude", "Dx", "Drest"}

\* the command classes: the signature of main and its completion table
Apps ==
    {[m_args |-> <<<<"x">>>>, m_varargs |-> <<"rest">>,
      table |-> {<<<<"x">>, "Dx">>, <<<<"rest">>, "Drest">>}],
     [m_args |-> <<>>, m_varargs |-> <<"rest">>, table |-> {<<<<"rest">>, "Drest">>}],
     [m_args |-> <<<<"x">>>>, m_varargs |-> <<None>>, table |-> EmptyDict]}

\* the values a switch function can have captured: (v,) for a plain valued
\* switch, ([v1, ..., vk],) for a repeatable one, () for a flag.  The argument
\* of --complete is not kept here: it is drawn where the loop reads it.
CapturedVals(f) ==
    CASE f = "profile" -> {<<Str(w)>> : w \in Words}
      [] f = "include" -> {<<Lst(ws)>> : ws \in SeqsUpTo(Words, MaxList) \ {<<>>}}
      [] OTHER -> {<<>>}

\* swfuncs: one SwitchParseInfo per switch function given on the command
\* line, each at its own index; --complete is always among them
SwFuncs ==
    UNION {
      {{[f |-> f, index |-> ix[f], val |-> vals[f]] : f \in S} :
          ix \in {i \in [S -> 1..Cardinality(S)] : \A f, g \in S : f # g => i[f] # i[g]},
          vals \in {v \in [S -> UNION {CapturedVals(f) : f \in S}] :
                      \A f \in S : v[f] \in CapturedVals(f)}}
      : S \in {T \cup {complete_func} : T \in SUBSET SwitchFuncs}}

TargetNames == {<<"x">>, <<"rest">>, <<"nosuch">>} \cup
               {<<"+", n>> : n \in {"profile", "include", "verbose", "nosuch"}}
NaN == [numeric |-> FALSE, n |-> 0]
Currents == {[numeric |-> TRUE, n |-> n] : n \in 0..(MaxTail + 1)} \cup {NaN}
\* the argument of --complete after split(':')
Requests ==
    {[fields |-> 2, name |-> t, current |-> c] : t \in TargetNames, c \in Currents}
    \cup {[fields |-> k, name |-> <<"rest">>, current |-> NaN] : k \in {1, 3}}

\* lines 619-624: posargs
PosArgs(app, tailargs) ==
    {<<app.m_args[i], Str(tailargs[i])>> :
        i \in 1..(IF Len(app.m_args) < Len(tailargs) THEN Len(app.m_args)
                  ELSE Len(tailargs))}
    \cup (IF app.m_varargs # <<None>> /\ Len(app.m_args) < Len(tailargs)
          THEN {<<app.m_varargs,
                  Lst(SubSeq(tailargs, Len(app.m_args) + 1, Len(tailargs)))>>}
          ELSE {})

\* a sequence of the records of S in ascending index
RECURSIVE SortedByIndex(_)
SortedByIndex(S) ==
    IF S = {} THEN <<>>
    ELSE LET m == CHOOSE x \in S : \A y \in S : x.index <= y.index
         IN <<m>> \o SortedByIndex(S \ {m})

\* the same in descending index
RECURSIVE SortedByIndexDown(_)
SortedByIndexDown(S) ==
    IF S = {} THEN <<>>
    ELSE LET m == CHOOSE x \in S : \A y \in S : x.index >= y.index
         IN <<m>> \o SortedByIndexDown(S \ {m})

replay_order_descending(swfuncs) == SortedByIndexDown(swfuncs)

\* line 636: sorted([(sf.index, f, sf) for f, sf in swfuncs.iteritems()])
replay_order(swfuncs) == SortedByIndex(swfuncs)

Raise(e) == [kind |-> "raise", err |-> e, completion |-> None, prefix |-> NoValue]
Return == [kind |-> "return", err |-> None, completion |-> None, prefix |-> NoValue]
Call(c, p) == [kind |-> "call", err |-> None, completion |-> c, prefix |-> p]

\* prefix[i] of Python, i from -len to len - 1
PyIndex(lst, i) ==
    IF 0 <= i /\ i < Len(lst) THEN Call(None, Str(lst[i + 1]))
    ELSE IF -Len(lst) <= i /\ i < 0 THEN Call(None, Str(lst[Len(lst) + i + 1]))
    ELSE Raise("IndexError")

\* the first captured value of a repeatable switch taken instead of the last
switch_prefix_first(swinfo, val) ==
    IF val = <<>> THEN Raise("IndexError")
    ELSE IF swinfo.list THEN PyIndex(val[1].v, 0)
    ELSE Call(None, val[1])

\* lines 656-663: prefix = swfuncs[func].val[0], and its last element when
\* the switch is a list
switch_prefix(swinfo, val) ==
    IF val = <<>> THEN Raise("IndexError")
    ELSE IF swinfo.list THEN PyIndex(val[1].v, -1)
    ELSE Call(None, val[1])

\* lines 649-663: the target is a switch
resolve_switch(swfuncs, name) ==
    IF name \notin SwitchNames THEN Raise("KeyError")
    ELSE LET swinfo == SwitchInfo(name) IN
         IF ~\E sf \in swfuncs : sf.f = swinfo.func THEN Raise("KeyError")
         ELSE LET sf == CHOOSE x \in swfuncs : x.f = swinfo.func
                  p == switch_prefix(swinfo, sf.val)
              IN IF p.kind = "raise" THEN p ELSE Call(swinfo.completion, p.prefix)

\* the whole variadic tail kept as the prefix
variadic_prefix_whole(tail, current) == Call(None, tail)

\* line 676: prefix = prefix[int(current) - 1]
variadic_prefix(tail, current) ==
    IF ~current.numeric THEN Raise("ValueError")
    ELSE PyIndex(tail.v, current.n - 1)

\* lines 669-680: the target is an argument of main; a KeyError returns
resolve_argument(app, posargs, argname, current) ==
    IF argname \notin Keys(app.table) THEN Return
    ELSE IF argname \notin Keys(posargs) THEN Return
    ELSE IF argname = app.m_varargs
    THEN LET p == variadic_prefix(Lookup(posargs, argname), current)
         IN IF p.kind = "raise" THEN p ELSE Call(Lookup(app.table, argname), p.prefix)
    ELSE Call(Lookup(app.table, argname), Lookup(posargs, argname))

\* lines 649-680
resolve(app, swfuncs, posargs, argname, current) ==
    IF argname # <<>> /\ argname[1] = "+"
    THEN resolve_switch(swfuncs, Tail(argname))
    ELSE resolve_argument(app, posargs, argname, current)

NoCall == [called |-> FALSE, completion |-> None, prefix |-> NoValue]
NoApp == [m_args |-> <<>>, m_varargs |-> <<None>>, table |-> EmptyDict]

DynIdle ==
    /\ c_app = NoApp /\ c_swfuncs = {} /\ c_tailargs = <<>> /\ c_posargs = {}
    /\ c_queue = <<>> /\ c_i = 1 /\ c_log = <<>> /\ c_argname = <<None>>
    /\ c_current = NaN /\ c_completion = None /\ c_prefix = NoValue
    /\ c_call = NoCall /\ c_stdout = <<>> /\ c_error = None /\ c_pc = "idle"

\* argname is unbound until the loop reaches the completion switch
DynInit ==
    /\ c_app \in Apps /\ c_swfuncs = {} /\ c_tailargs = <<>> /\ c_posargs = {}
    /\ c_queue = <<>> /\ c_i = 1 /\ c_log = <<>> /\ c_argname = <<None>>
    /\ c_current = NaN /\ c_completion = None /\ c_prefix = NoValue
    /\ c_call = NoCall /\ c_stdout = <<>> /\ c_error = None /\ c_pc = "init"

dynRest == <<quoteVars, listVars, decoVars, genVars>>

\* lines 619-637: the handler is entered with the parsed command line
Invoke ==
    /\ c_pc = "init"
    /\ \E swfuncs \in SwFuncs, tailargs \in SeqsUpTo(Words, MaxTail) :
         /\ c_swfuncs' = swfuncs
         /\ c_tailargs' = tailargs
         /\ c_posargs' = PosArgs(c_app, tailargs)
         /\ c_queue' = replay_order(swfuncs)
    /\ c_pc' = "replay"
    /\ UNCHANGED <<c_app, c_i, c_log, c_argname, c_current, c_completion, c_prefix,
                   c_call, c_stdout, c_error, dynRest>>

\* line 644: f(self, *sf.val) returns
ReplayCall ==
    /\ c_pc = "replay" /\ c_i <= Len(c_queue)
    /\ c_queue[c_i].f # complete_func
    /\ c_log' = Append(c_log, c_queue[c_i].f)
    /\ c_i' = c_i + 1
    /\ UNCHANGED <<c_app, c_swfuncs, c_tailargs, c_posargs, c_queue, c_argname,
                   c_current, c_completion, c_prefix, c_call, c_stdout, c_error,
                   c_pc, dynRest>>

\* line 644: f(self, *sf.val) raises, which ends the handler
ReplayRaise ==
    /\ c_pc = "replay" /\ c_i <= Len(c_queue)
    /\ c_queue[c_i].f # complete_func
    /\ c_log' = Append(c_log, c_queue[c_i].f)
    /\ c_error' = "SwitchError"
    /\ c_pc' = "raised"
    /\ UNCHANGED <<c_app, c_swfuncs, c_tailargs, c_posargs, c_queue, c_i, c_argname,
                   c_current, c_completion, c_prefix, c_call, c_stdout, dynRest>>

\* lines 639-642: argname, current = sf.val[0].split(':')
ReplaySplit ==
    /\ c_pc = "replay" /\ c_i <= Len(c_queue)
    /\ c_queue[c_i].f = complete_func
    /\ \E req \in Requests :
         IF req.fields = 2
         THEN /\ c_argname' = req.name /\ c_current' = req.current
              /\ c_i' = c_i + 1
              /\ UNCHANGED <<c_error, c_pc>>
         ELSE /\ c_error' = "ValueError" /\ c_pc' = "raised"
              /\ UNCHANGED <<c_argname, c_current, c_i>>
    /\ UNCHANGED <<c_app, c_swfuncs, c_tailargs, c_posargs, c_queue, c_log,
                   c_completion, c_prefix, c_call, c_stdout, dynRest>>

\* lines 649-680
Resolve ==
    /\ c_pc = "replay" /\ c_i > Len(c_queue)
    /\ LET r == resolve(c_app, c_swfuncs, c_posargs, c_argname, c_current) IN
         /\ c_completion' = r.completion
         /\ c_prefix' = r.prefix
         /\ c_error' = r.err
         /\ c_pc' = CASE r.kind = "raise" -> "raised"
                      [] r.kind = "return" -> "done"
                      [] OTHER -> "dispatch"
    /\ UNCHANGED <<c_app, c_swfuncs, c_tailargs, c_posargs, c_queue, c_i, c_log,
                   c_argname, c_current, c_call, c_stdout, dynRest>>

\* lines 683-684: the descriptor's candidates, one line each; an object with
\* no complete method raises AttributeError
Dispatch ==
    /\ c_pc = "dispatch"
    /\ IF c_completion \in DynamicDescriptors
       THEN /\ c_call' = [called |-> TRUE, completion |-> c_completion,
                          prefix |-> c_prefix]
            /\ c_stdout' = <<[by |-> c_completion, from |-> c_prefix]>>
            /\ c_pc' = "done"
            /\ UNCHANGED c_error
       ELSE /\ c_error' = "AttributeError" /\ c_pc' = "raised"
            /\ UNCHANGED <<c_call, c_stdout>>
    /\ UNCHANGED <<c_app, c_swfuncs, c_tailargs, c_posargs, c_queue, c_i, c_log,
                   c_argname, c_current, c_completion, c_prefix, dynRest>>

\* ============================================ CompletionMixin.help_zsh_comp
ProgName == "xin"

\* the order of Python strings on the atoms that get compared
AtomOrder == <<"Hidden", "Hidden-switches", "Meta-switches", "Switches", "_", "a",
               "b", "complete", "h", "help", "i", "installed", "p", "profile",
               "quiet", "version">>
Rank(a) == CHOOSE i \in DOMAIN AtomOrder : AtomOrder[i] = a

\* s < t for two strings, or two tuples of strings
RECURSIVE SeqLess(_, _)
SeqLess(s, t) ==
    IF s = <<>> THEN t # <<>>
    ELSE IF t = <<>> THEN FALSE
    ELSE IF Rank(Head(s)) # Rank(Head(t)) THEN Rank(Head(s)) < Rank(Head(t))
    ELSE SeqLess(Tail(s), Tail(t))

\* sorted(seq, key = lambda it: it.key), which is stable
RECURSIVE InsertByKey(_, _)
InsertByKey(sorted, x) ==
    IF sorted = <<>> THEN <<x>>
    ELSE IF SeqLess(x.key, Head(sorted).key) THEN <<x>> \o sorted
    ELSE <<Head(sorted)>> \o InsertByKey(Tail(sorted), x)

RECURSIVE SortedByKey(_)
SortedByKey(seq) ==
    IF seq = <<>> THEN <<>>
    ELSE InsertByKey(SortedByKey(SubSeq(seq, 1, Len(seq) - 1)), seq[Len(seq)])

\* ---- completion descriptors, as the generator renders them
NoDesc == [kind |-> "none", arg |-> <<>>]
DynamicDesc == [kind |-> "dynamic", arg |-> <<>>]
FileDesc(glob) == [kind |-> "file", arg |-> <<glob>>]
DirectoryDesc == [kind |-> "directory", arg |-> <<>>]
ListDesc(values) == [kind |-> "list", arg |-> values]

\* zsh_action(argname) of FileCompletion, DirectoryCompletion, ListCompletion
\* (built from values), DynamicCompletion and of arguments' NoCompletion
descriptor_action(desc, argname) ==
    CASE desc.kind = "file" ->
           <<"_files">> \o (IF desc.arg[1] # <<>>
                            THEN <<" -g ", DQ>> \o pre_quote(desc.arg[1]) \o <<DQ>>
                            ELSE <<>>)
      [] desc.kind = "directory" -> <<"_path_files -/">>
      [] desc.kind = "list" ->
           zsh_action(SomeList([i \in DOMAIN desc.arg |-> StrItem(desc.arg[i])]), <<>>).text
      [] desc.kind = "dynamic" -> <<" __m_complete_general ">> \o argname
      [] OTHER -> <<" ">>

\* ---- the switch tables (command._switches_by_func)
SwHelp ==
    [names |-> <<"h", "help">>, group |-> "Meta-switches", argtype |-> FALSE,
     completion |-> NoDesc, list |-> FALSE, excludes |-> <<>>,
     help |-> <<"Prints this help message and quits">>, mandatory |-> FALSE]
SwVersion ==
    [names |-> <<"version">>, group |-> "Meta-switches", argtype |-> FALSE,
     completion |-> NoDesc, list |-> FALSE, excludes |-> <<>>,
     help |-> <<>>, mandatory |-> FALSE]
SwComplete ==
    [names |-> <<"complete">>, group |-> "Hidden-switches", argtype |-> TRUE,
     completion |-> NoDesc, list |-> FALSE, excludes |-> <<>>,
     help |-> <<"Hidden switch for dynamic completion">>, mandatory |-> FALSE]
SwProfile ==
    [names |-> <<"p", "profile">>, group |-> "Switches", argtype |-> TRUE,
     completion |-> DynamicDesc, list |-> FALSE, excludes |-> <<>>,
     help |-> <<"Use ", DQ, "profile", DQ>>, mandatory |-> TRUE]
SwInstalled ==
    [names |-> <<"i", "installed">>, group |-> "Switches", argtype |-> TRUE,
     completion |-> NoDesc, list |-> TRUE, excludes |-> <<"p", "profile">>,
     help |-> <<"Search installed">>, mandatory |-> FALSE]

\* a switch the application put in a group it calls Hidden
SwQuiet ==
    [names |-> <<"quiet">>, group |-> "Hidden", argtype |-> FALSE,
     completion |-> NoDesc, list |-> FALSE, excludes |-> <<>>,
     help |-> <<"Say less">>, mandatory |-> FALSE]

MetaTable == {SwHelp, SwVersion, SwComplete}
FullTable == {SwProfile, SwInstalled, SwQuiet}

\* ---- the command classes
\* DESCRIPTION and the class's docstring are strings, empty when not set
Classes == {"Plain", "Variadic", "OptVariadic", "Undocumented"}
ClassInfo(c) ==
    CASE c = "Plain" ->
           [m_args |-> <<>>, n_defaults |-> 0, m_varargs |-> None,
            table |-> EmptyDict, DESCRIPTION |-> <<"p", "q">>, doc |-> <<>>,
            switches |-> MetaTable]
      [] c = "Variadic" ->
           [m_args |-> <<"x">>, n_defaults |-> 0, m_varargs |-> "rest",
            table |-> {<<"x", FileDesc(<<"*.", DQ, "py">>)>>, <<"rest", DynamicDesc>>},
            DESCRIPTION |-> <<"p", NL, "q">>, doc |-> <<>>,
            switches |-> FullTable]
      [] c = "OptVariadic" ->
           [m_args |-> <<"x", "y">>, n_defaults |-> 1, m_varargs |-> "rest",
            table |-> {<<"y", ListDesc(<<Foo, Bar>>)>>},
            DESCRIPTION |-> <<>>, doc |-> <<"d", NL, "e", NL>>,
            switches |-> MetaTable]
      [] c = "Undocumented" ->
           [m_args |-> <<"x">>, n_defaults |-> 1, m_varargs |-> None,
            table |-> EmptyDict, DESCRIPTION |-> <<>>, doc |-> <<>>,
            switches |-> MetaTable]

\* ---- the command trees: a node is a path of subcommand names from the root
\* and the class registered under the last name
ChildNames == {<<"a">>, <<"b">>, <<"a", "_", "b">>}
Paths == {<<>>} \cup {<<c>> : c \in ChildNames}
         \cup {<< <<"a">>, <<"b">> >>, << <<"b">>, <<"a">> >>}
Parent(path) == SubSeq(path, 1, Len(path) - 1)
Shapes == {S \in SUBSET Paths :
             /\ <<>> \in S
             /\ Cardinality(S) <= MaxNodes
             /\ \A q \in S : q # <<>> => Parent(q) \in S}
\* at most MaxVaried nodes of a tree are of another class than Plain
Trees == UNION {{{[path |-> q, class |-> cls[q]] : q \in S} :
                   cls \in {c \in [S -> Classes] :
                              Cardinality({q \in S : c[q] # "Plain"}) <= MaxVaried}}
                : S \in Shapes}

Node(tree, path) == CHOOSE n \in tree : n.path = path
Info(n) == ClassInfo(n.class)
\* command._subcommands: the names registered under the node
Subcommands(tree, path) ==
    {q[Len(q)] : q \in {n.path : n \in {m \in tree : m.path # <<>>
                                                      /\ Parent(m.path) = path}}}

\* ---- switches(command), lines 249-308
readd_dashes_and_join(flags, sep) ==
    Join(<<sep>>, [i \in DOMAIN flags |->
                     <<IF Len(flags[i]) = 1 THEN "-" ELSE "--", flags[i]>>])

switch_spec(si) ==
    LET joined == readd_dashes_and_join(si.names, ",")
        swnames == IF Len(si.names) > 1 THEN <<"{">> \o joined \o <<"}">> ELSE joined
        argtype == IF si.argtype
                   THEN IF si.completion.kind # "none"
                        THEN <<": :">> \o pre_quote(descriptor_action(
                                             si.completion, <<"+", si.names[1]>>))
                        ELSE <<": : ">>
                   ELSE <<>>
        list == IF si.list THEN <<BS, "*">> ELSE <<>>
        excludes == IF si.excludes # <<>>
                    THEN <<"'(">> \o readd_dashes_and_join(si.excludes, " ") \o <<")'">>
                    ELSE <<>>
        help == (IF si.help # <<>> THEN pre_quote(si.help) ELSE <<>>)
                \o (IF si.mandatory THEN <<" (mandatory)">> ELSE <<>>)
    IN excludes \o list \o swnames \o <<DQ, "[">> \o help \o <<"]">> \o argtype \o <<DQ>>

RECURSIVE InGroup(_, _)
InGroup(seq, grp) ==
    IF seq = <<>> THEN <<>>
    ELSE (IF Head(seq).group = grp THEN <<Head(seq)>> ELSE <<>>) \o InGroup(Tail(seq), grp)

\* the groups without the one named Hidden
by_groups_hidden(order) ==
    LET groups == {order[i].group : i \in DOMAIN order} \ {"Hidden"}
    IN {[key |-> <<g>>, swinfos |-> InGroup(order, g)] : g \in groups}

\* by_groups.items(), one item per group that is not hidden, each with its
\* switches in the order the table enumerated them
by_groups(order) ==
    LET groups == {order[i].group : i \in DOMAIN order} \ {"Hidden-switches"}
    IN {[key |-> <<g>>, swinfos |-> InGroup(order, g)] : g \in groups}

\* the switch specifications, `order` the enumeration of _switches_by_func
switches(order) ==
    LET grps == SortedByKey(SomeOrder(by_groups(order)))
        specs(swinfos) ==
            LET sorted == SortedByKey([i \in DOMAIN swinfos |->
                                         [key |-> swinfos[i].names, si |-> swinfos[i]]])
            IN [i \in DOMAIN sorted |-> switch_spec(sorted[i].si)]
    IN Flatten([i \in DOMAIN grps |-> specs(grps[i].swinfos)])

\* ---- arguments(command), lines 310-373
OptionalWarning ==
    <<"Mixing subcommands and optional ", "arguments is not fully supported, ",
      "expect unexpected behaviour.", NL>>
VariadicWarning(m_varargs) ==
    <<"Mixing subcommands and variable ", "arguments is not supported.", NL,
      "Ignoring the argument ", m_varargs, ".", NL>>

ArgDescriptor(info, arg) ==
    IF arg \in Keys(info.table) THEN Lookup(info.table, arg) ELSE NoDesc

positional_specs(info) ==
    LET no_of_mandatory_args == Len(info.m_args) - info.n_defaults
    IN [n \in DOMAIN info.m_args |->
          <<"':">> \o (IF n - 1 >= no_of_mandatory_args THEN <<":">> ELSE <<>>)
                   \o <<info.m_args[n], ":">>
                   \o descriptor_action(ArgDescriptor(info, info.m_args[n]),
                                        <<info.m_args[n]>>)
                   \o <<"'">>]

variadic_spec(info) ==
    <<"'*:::", info.m_varargs, ":">>
    \o descriptor_action(ArgDescriptor(info, info.m_varargs), <<info.m_varargs>>)
    \o <<"'">>

\* the variadic slot kept although the command has subcommands
arguments_keep_variadic(info, has_subcommands) ==
    [specs |-> positional_specs(info)
               \o (IF info.m_varargs # None THEN <<variadic_spec(info)>> ELSE <<>>),
     err |-> (IF info.n_defaults > 0 /\ has_subcommands THEN OptionalWarning ELSE <<>>)
             \o (IF info.m_varargs # None /\ has_subcommands
                 THEN VariadicWarning(info.m_varargs) ELSE <<>>)]

\* specs: the argument specifications; err: what is written to sys.stderr
arguments(info, has_subcommands) ==
    [specs |-> positional_specs(info)
               \o (IF info.m_varargs # None /\ ~has_subcommands
                   THEN <<variadic_spec(info)>> ELSE <<>>),
     err |-> (IF info.n_defaults > 0 /\ has_subcommands THEN OptionalWarning ELSE <<>>)
             \o (IF info.m_varargs # None /\ has_subcommands
                 THEN VariadicWarning(info.m_varargs) ELSE <<>>)]

\* ---- subcommands(command, prefix), lines 375-427
\* string.find(c): the 0-based place of the first c, or -1
Find(string, c) ==
    IF \E i \in DOMAIN string : string[i] = c
    THEN (CHOOSE i \in DOMAIN string :
            string[i] = c /\ \A j \in 1..(i - 1) : string[j] # c) - 1
    ELSE -1

\* string[:k]
UpTo(string, k) ==
    IF k >= 0 THEN SubSeq(string, 1, IF k < Len(string) THEN k ELSE Len(string))
    ELSE SubSeq(string, 1, Len(string) + k)

first_line(string) == UpTo(string, Find(string, NL))

\* subapp.DESCRIPTION if subapp.DESCRIPTION else inspect.getdoc(subapp)
Described(info) == info.DESCRIPTION # <<>> \/ info.doc # <<>>
description(info) == IF info.DESCRIPTION # <<>> THEN info.DESCRIPTION ELSE info.doc

FuncName(path) == <<"_", ProgName>> \o Flatten([i \in DOMAIN path |-> <<"_">> \o path[i]])

\* the subcommand names in ascending order
SortedNames(names) ==
    LET sorted == SortedByKey(SomeOrder({[key |-> c] : c \in names}))
    IN [i \in DOMAIN sorted |-> sorted[i].key]

func_description(tree, path, name) ==
    <<DQ>> \o name \o <<BS, ":">>
           \o pre_quote(first_line(description(Info(Node(tree, Append(path, name))))))
           \o <<DQ>>

\* func_specs, `names` the subcommand names in ascending order
func_specs(tree, path, names) ==
    IF names = <<>> THEN <<>>
    ELSE << <<DQ, ": :((">>
              \o pre_quote(Join(<<" ">>, [i \in DOMAIN names |->
                                            func_description(tree, path, names[i])]))
              \o <<"))", DQ>>,
            <<"'*:: : _next ">> \o FuncName(path) \o <<"'">> >>

\* func_extras, `enum` the subcommand names as the dictionary enumerates them
func_extras(enum) ==
    IF enum = <<>> THEN <<>>
    ELSE <<"__m_subcommands=(">> \o Join(<<" ">>, enum) \o <<")", NL>>

\* ---- zsh_completion_functions(name, command), lines 445-461: the function
\* of one node; sw_enum and sub_enum are the enumerations of its switch
\* table and of its subcommand registry
function_text(tree, path, sw_enum, sub_enum) ==
    LET name == FuncName(path)
        info == Info(Node(tree, path))
        subs == Subcommands(tree, path)
    IN name \o <<"() {", NL, "_debug ">> \o name \o <<NL>>
       \o (IF path = <<>>
           THEN <<"typeset __m_words __m_current=$CURRENT __m_subcommands", NL,
                  "__m_words=(", DQ, "${(@)words}", DQ, ")", NL>>
           ELSE <<>>)
       \o func_extras(sub_enum)
       \o <<"_arguments -s ">>
       \o (IF subs = {} THEN <<"-A '-*' ">> ELSE <<>>)
       \o <<"':' ">>
       \o Join(<<" ">>, switches(sw_enum)) \o <<" ">>
       \o Join(<<" ">>, arguments(info, subs # {}).specs) \o <<" ">>
       \o Join(<<" ">>, func_specs(tree, path, SortedNames(subs)))
       \o <<NL, "}", NL>>

\* the recursion of zsh_completion_functions and subcommands: a node is
\* entered (its arguments are read, after its description was read by the
\* loop of its parent), its subcommands are walked in ascending name, and it
\* is left (its function is appended to func_defs)
RECURSIVE Walk(_, _)
Walk(tree, path) ==
    LET names == SortedNames(Subcommands(tree, path))
    IN <<[ev |-> "enter", path |-> path]>>
       \o Flatten([i \in DOMAIN names |-> Walk(tree, Append(path, names[i]))])
       \o <<[ev |-> "exit", path |-> path]>>

HelperFunctions == << <<"<_debug>">>, <<"<__is_word_in_array, _next>">>,
                     <<"<__m_remove_subcommand, __m_complete_general, __m_complete_path_like>">> >>

\* the script without its last line
script_without_dispatch(func_defs) ==
    <<"#compdef ", ProgName, NL, NL, NL, NL>> \o Join(<<NL>>, func_defs) \o <<NL>>

\* lines 584-587, with the line break print adds
script(func_defs) ==
    <<"#compdef ", ProgName, NL, NL, NL, NL>>
    \o Join(<<NL>>, func_defs) \o <<NL>>
    \o <<"_", ProgName, " ", DQ, "$@", DQ, NL>>

GenIdle ==
    /\ g_tree = {} /\ g_todo = <<>> /\ g_func_defs = <<>> /\ g_stderr = <<>>
    /\ g_stdout = <<>> /\ g_error = None /\ g_pc = "idle" /\ g_run = 1 /\ g_first = <<>>

\* --help-zsh-comp is called on the root command of some tree
GenInit ==
    /\ g_tree \in Trees /\ g_todo = Walk(g_tree, <<>>) /\ g_func_defs = <<>> /\ g_stderr = <<>>
    /\ g_stdout = <<>> /\ g_error = None /\ g_pc = "walk" /\ g_run = 1 /\ g_first = <<>>

genRest == <<quoteVars, listVars, decoVars, dynVars>>
\* g_todo: the steps of the recursion that are still to come
Event == Head(g_todo)
AtEvent(ev) == g_pc = "walk" /\ g_todo # <<>> /\ Event.ev = ev

\* lines 407-409 for a subcommand, then arguments(command), line 445
EnterNode ==
    /\ AtEvent("enter")
    /\ Event.path # <<>> => Described(Info(Node(g_tree, Event.path)))
    /\ g_stderr' = g_stderr \o arguments(Info(Node(g_tree, Event.path)),
                                         Subcommands(g_tree, Event.path) # {}).err
    /\ g_todo' = Tail(g_todo)
    /\ UNCHANGED <<g_tree, g_func_defs, g_stdout, g_error, g_pc, g_run, g_first, genRest>>

\* lines 407-409: neither DESCRIPTION nor a docstring, first_line(None) raises
EnterFail ==
    /\ AtEvent("enter")
    /\ Event.path # <<>> /\ ~Described(Info(Node(g_tree, Event.path)))
    /\ g_error' = "AttributeError"
    /\ g_pc' = "failed"
    /\ UNCHANGED <<g_tree, g_todo, g_func_defs, g_stderr, g_stdout, g_run, g_first, genRest>>

\* lines 420-427 and 447-461: the node's function is appended
ExitNode ==
    /\ AtEvent("exit")
    /\ \E sw_enum \in Orders(Info(Node(g_tree, Event.path)).switches),
          sub_enum \in Orders(Subcommands(g_tree, Event.path)) :
         g_func_defs' = Append(g_func_defs,
                               function_text(g_tree, Event.path, sw_enum, sub_enum))
    /\ g_todo' = Tail(g_todo)
    /\ UNCHANGED <<g_tree, g_stderr, g_stdout, g_error, g_pc, g_run, g_first, genRest>>

\* lines 510-587: the helper functions are appended and the script printed
PrintScript ==
    /\ g_pc = "walk" /\ g_todo = <<>>
    /\ g_func_defs' = g_func_defs \o HelperFunctions
    /\ g_stdout' = script(g_func_defs \o HelperFunctions)
    /\ g_pc' = "printed"
    /\ UNCHANGED <<g_tree, g_todo, g_stderr, g_error, g_run, g_first, genRest>>

\* the script is generated once more, by a new process, for the same tree
Regenerate ==
    /\ g_pc = "printed" /\ g_run = 1
    /\ g_first' = g_stdout
    /\ g_run' = 2
    /\ g_todo' = Walk(g_tree, <<>>) /\ g_func_defs' = <<>> /\ g_stderr' = <<>> /\ g_stdout' = <<>>
    /\ g_pc' = "walk"
    /\ UNCHANGED <<g_tree, g_error, genRest>>

\* ============================================================ specifications
InitQuote == QuoteInit /\ ListIdle /\ DecoIdle /\ DynIdle /\ GenIdle
NextQuote == Quote
SpecQuote == InitQuote /\ [][NextQuote]_vars

InitList == QuoteIdle /\ ListInit /\ DecoIdle /\ DynIdle /\ GenIdle
NextList == Construct \/ Render
SpecList == InitList /\ [][NextList]_vars

InitDeco == QuoteIdle /\ ListIdle /\ DecoInit /\ DynIdle /\ GenIdle
NextDeco == DecoSwitch \/ DecoMain
SpecDeco == InitDeco /\ [][NextDeco]_vars

InitDyn == QuoteIdle /\ ListIdle /\ DecoIdle /\ DynInit /\ GenIdle
NextDyn == Invoke \/ ReplayCall \/ ReplayRaise \/ ReplaySplit \/ Resolve \/ Dispatch
SpecDyn == InitDyn /\ [][NextDyn]_vars

InitGen == QuoteIdle /\ ListIdle /\ DecoIdle /\ DynIdle /\ GenInit
NextGen == EnterNode \/ EnterFail \/ ExitNode \/ PrintScript \/ Regenerate
SpecGen == InitGen /\ [][NextGen]_vars

\* ==================================================================== claims

\* ---- C1
\* the switch functions of the command line other than --complete, in
\* ascending command-line position
RECURSIVE Ascending(_)
Ascending(S) ==
    IF S = {} THEN <<>>
    ELSE LET m == CHOOSE x \in S : \A y \in S : y.index >= x.index
         IN <<m.f>> \o Ascending(S \ {m})
ExpectedReplay == Ascending({sf \in c_swfuncs : sf.f # complete_func})
IsPrefix(a, b) == Len(a) <= Len(b) /\ a = SubSeq(b, 1, Len(a))

\* C1: in one --complete request the switch functions given on the command
\* line, without --complete itself, are called once each in ascending
\* command-line position, all of them before the descriptor's complete() is
\* called, and the function of --complete is never called.
C1_ReplayBeforeComplete ==
    c_pc # "init" =>
      /\ \A i \in DOMAIN c_log : c_log[i] # complete_func
      /\ IsPrefix(c_log, ExpectedReplay)
      /\ (c_pc = "dispatch" \/ c_call.called) => c_log = ExpectedReplay

C1_Witness ==
    /\ c_call.called
    /\ Len(c_log) = 2
    /\ \E sf \in c_swfuncs : sf.f = complete_func /\ sf.index = 2

\* ---- C2
TargetUnresolved ==
    IF c_argname # <<>> /\ c_argname[1] = "+"
    THEN Tail(c_argname) \notin SwitchNames
    ELSE c_argname \notin Keys(c_app.table)

\* C2: a request whose target names no known switch (written with '+') and no
\* entry of main's completion table (written without) prints no line and
\* ends without an error, whatever the command line and the word index.  A
\* replayed switch that fails is not the handler's error and is left out.
C2_UnknownTargetSilent ==
    (/\ c_pc \in {"done", "raised", "dispatch"}
     /\ c_argname # <<None>>
     /\ c_error # "SwitchError"
     /\ TargetUnresolved)
      => (c_pc = "done" /\ c_stdout = <<>> /\ c_error = None)

\* ---- C3
VariadicTail == SubSeq(c_tailargs, Len(c_app.m_args) + 1, Len(c_tailargs))
VariadicCall == c_call.called /\ c_argname = c_app.m_varargs

\* C3: when the target is main's variadic parameter and has a table entry,
\* the prefix given to complete() is one word of the variadic tail (the words
\* left after each named parameter took one), never the tail itself, and for
\* a word index of 1 or more it is the word at that 1-based position of the
\* tail; with the words pkg1, pkg2 all variadic and index 2 it is pkg2.
C3_VariadicWord ==
    VariadicCall =>
      /\ ~c_call.prefix.list
      /\ \E i \in DOMAIN VariadicTail : c_call.prefix = Str(VariadicTail[i])
      /\ c_call.completion = Lookup(c_app.table, c_argname)
      /\ c_current.n >= 1 =>
           /\ c_current.n <= Len(VariadicTail)
           /\ c_call.prefix = Str(VariadicTail[c_current.n])
      /\ (c_app.m_args = <<>> /\ c_tailargs = <<"pkg1", "pkg2">> /\ c_current.n = 2)
           => c_call.prefix = Str("pkg2")

C3_Witness ==
    /\ VariadicCall
    /\ c_app.m_args = <<>> /\ c_tailargs = <<"pkg1", "pkg2">> /\ c_current.n = 2
    /\ \E sf \in c_swfuncs : sf.f = "profile"
    /\ c_call.prefix = Str("pkg2")

\* ---- C4
SwitchCall == c_call.called /\ c_argname # <<>> /\ c_argname[1] = "+"
CapturedFor(f) == (CHOOSE sf \in c_swfuncs : sf.f = f).val

\* C4: when the target starts with '+', complete() is called on the
\* descriptor of that switch with the value captured for the switch on the
\* command line, and for a repeatable switch with the last of the captured
\* values, not the list and not an earlier value.
C4_SwitchPrefix ==
    SwitchCall =>
      LET swinfo == SwitchInfo(Tail(c_argname))
          captured == CapturedFor(swinfo.func)[1]
      IN /\ c_call.completion = swinfo.completion
         /\ ~c_call.prefix.list
         /\ c_call.prefix = IF swinfo.list THEN Str(captured.v[Len(captured.v)])
                            ELSE captured

C4_Witness ==
    /\ SwitchCall
    /\ c_argname = <<"+", "include">>
    /\ CapturedFor("include") = <<Lst(<<"pkg1", "pkg2">>)>>
    /\ c_call.prefix = Str("pkg2")

\* ---- C7
DecoDone == d_pc \in {"returned", "TypeError"} /\ d_target.switch
NoOfDescriptors == Len(d_array) + Cardinality(d_dict)

\* C7 as stated: on a switch target, zero descriptors or a mapping of more
\* than one key raise TypeError and leave the switch's descriptor as it was,
\* and a descriptor is stored only when exactly one was supplied.
C7_AsStated ==
    DecoDone =>
      /\ (NoOfDescriptors = 0 \/ Cardinality(d_dict) > 1)
            => (d_pc = "TypeError" /\ si_completion = d_prior)
      /\ d_pc = "returned" => NoOfDescriptors = 1

\* C7 (amended): on a switch target the decorator raises TypeError, leaving
\* the switch's descriptor as it was, exactly when no descriptor at all is
\* supplied; otherwise it stores the first positional descriptor, or with no
\* positional one a value of the mapping, however many keys the mapping has.
\* The main function's completion table is not touched.
C7_FirstDescriptorStored ==
    DecoDone =>
      /\ d_pc = "TypeError" <=> (d_array = <<>> /\ d_dict = EmptyDict)
      /\ d_pc = "TypeError" => si_completion = d_prior
      /\ d_array # <<>> => si_completion = d_array[1]
      /\ (d_array = <<>> /\ d_dict # EmptyDict) => si_completion \in Values(d_dict)
      /\ main_table = EmptyDict

C7_Witness ==
    /\ DecoDone /\ d_pc = "returned"
    /\ d_array = <<>> /\ Cardinality(d_dict) = 2
    /\ si_completion # d_prior

\* ---- C8
LcDone == lc_pc \in {"rendered", "raised"}
LcAllStrings == \A i \in DOMAIN lc_args : lc_args[i].t = "str"
LcSole(t) == Len(lc_args) = 1 /\ lc_args[1].t = t
\* the construction modes of the class's documentation
LcDocumented == LcAllStrings \/ LcSole("list") \/ LcSole("dict")
LcGivenValues ==
    IF LcSole("list") THEN lc_args[1].l
    ELSE IF LcAllStrings THEN [i \in DOMAIN lc_args |-> lc_args[i].s]
    ELSE <<>>
LcGivenMappings == {lc_kwargs} \cup (IF LcSole("dict") THEN {lc_args[1].d} ELSE {})
LcUsedMapping == IF LcSole("dict") THEN lc_args[1].d ELSE lc_kwargs
QuotedWords(ws) == [i \in DOMAIN ws |-> <<DQ>> \o pre_quote(ws[i]) \o <<DQ>>]
QuotedPairs(o) ==
    [i \in DOMAIN o |-> <<DQ>> \o pre_quote(o[i][1]) \o <<BS, BS, ":">>
                         \o pre_quote(o[i][2]) \o <<DQ>>]
EnumeratesMapping(text, m) ==
    \E o \in Orders(m) : text = <<"(">> \o Join(<<" ">>, QuotedPairs(o)) \o <<")">>

RECURSIVE Unescape(_)
Unescape(s) ==
    IF s = <<>> THEN <<>>
    ELSE IF Head(s) = BS /\ Len(s) >= 2 THEN <<s[2]>> \o Unescape(SubSeq(s, 3, Len(s)))
    ELSE <<Head(s)>> \o Unescape(Tail(s))

EscapedOnce(s) ==
    Flatten([i \in DOMAIN s |-> IF s[i] \in {BS, DQ} THEN <<BS, s[i]>> ELSE <<s[i]>>])

\* C9: pre_quote is defined on every string; each backslash and each double
\* quote of the input gets exactly one escaping backslash (the backslash put
\* before a quote is not escaped again), and removing one level of escaping
\* from the result gives the input back.
C9_QuoteInvertible ==
    /\ qpc = "in" => ENABLED Quote
    /\ qpc = "quoted" =>
         /\ Unescape(qout) = qin
         /\ qout = EscapedOnce(qin)
         /\ Count(qout, BS) = 2 * Count(qin, BS) + Count(qin, DQ)

C9_Witness ==
    /\ qpc = "quoted"
    /\ Count(qin, BS) > 0 /\ Count(qin, DQ) > 0
    /\ Unescape(qout) = qin

\* ---- the static generator
NodePaths == {n.path : n \in g_tree}
HasChildren(path) == Subcommands(g_tree, path) # {}
IsExit(e) == e.ev = "exit"
\* the steps of the recursion that were taken
Done == LET walk == Walk(g_tree, <<>>) IN SubSeq(walk, 1, Len(walk) - Len(g_todo))
\* the nodes whose arguments were read, and those whose function was appended
EnteredPaths ==
    LET done == Done
    IN {done[i].path : i \in {j \in DOMAIN done : done[j].ev = "enter"}}
ExitedSeq == SelectSeq(Done, IsExit)
Contains(s, sub) ==
    \E i \in 0..(Len(s) - Len(sub)) : SubSeq(s, i + 1, i + Len(sub)) = sub
\* the function generated for a node that was left
GeneratedFor(path) ==
    g_func_defs[CHOOSE k \in DOMAIN ExitedSeq : ExitedSeq[k].path = path]

\* the text of a description up to its first line break
FirstLineOf(string) ==
    IF NL \in Range(string) THEN SubSeq(string, 1, Find(string, NL)) ELSE string
\* the names of the children of a node, ascending
Ascendingly(names) ==
    CHOOSE o \in Orders(names) :
        \A i \in DOMAIN o : \A j \in DOMAIN o : i < j => SeqLess(o[i], o[j])
ExpectedSelector(path) ==
    LET names == Ascendingly(Subcommands(g_tree, path))
        entry(name) == <<DQ>> \o name \o <<BS, ":">>
                       \o pre_quote(FirstLineOf(description(
                              Info(Node(g_tree, Append(path, name))))))
                       \o <<DQ>>
    IN <<DQ, ": :((">>
       \o pre_quote(Join(<<" ">>, [i \in DOMAIN names |-> entry(names[i])]))
       \o <<"))", DQ>>

\* C5: a printed script has one function per command node, the root's named
\* _<progname> and a child's <parent-function-name>_<childname>, and the
\* function of every node with children holds a selector of exactly its
\* children, ascending by name, each with the first line of its description.
C5_OneFunctionPerNodeWithSelector ==
    g_pc = "printed" =>
        /\ Len(g_func_defs) = Cardinality(NodePaths) + Len(HelperFunctions)
        /\ \A q \in NodePaths :
             /\ IsPrefix(FuncName(q) \o <<"() {", NL>>, GeneratedFor(q))
             /\ q # <<>> =>
                  FuncName(q) = FuncName(Parent(q)) \o <<"_">> \o q[Len(q)]
             /\ HasChildren(q) => Contains(GeneratedFor(q), ExpectedSelector(q))

\* C6
MixedVar(path) == Info(Node(g_tree, path)).m_varargs # None /\ HasChildren(path)
MixedOpt(path) == Info(Node(g_tree, path)).n_defaults > 0 /\ HasChildren(path)
NoVariadicSlot ==
    LET exited == ExitedSeq
    IN \A k \in DOMAIN exited :
           MixedVar(exited[k].path) => "'*:::" \notin Range(g_func_defs[k])
NothingPrintedEarly == g_pc # "printed" => g_stdout = <<>>
\* how many of the nodes whose arguments were read mix subcommands with a
\* variadic parameter, and with optional parameters
MixedVarEntered == Cardinality({q \in EnteredPaths : MixedVar(q)})
MixedOptEntered == Cardinality({q \in EnteredPaths : MixedOpt(q)})

C10_SameScript == (g_pc = "printed" /\ g_run = 2) => g_stdout = g_first

\* C11: standard output is empty until every node's function was generated,
\* so a failed generation leaves it empty; a printed script is the header,
\* the function of every node, the fixed helpers and the line that
\* dispatches to the root function.
C11_AllOrNothing ==
    /\ g_pc \in {"walk", "failed"} => g_stdout = <<>>
    /\ g_pc = "printed" =>
         LET header == <<"#compdef ", ProgName, NL, NL, NL, NL>>
             footer == <<NL>> \o FuncName(<<>>) \o <<" ", DQ, "$@", DQ, NL>>
             nodes == Cardinality(NodePaths)
             exited == ExitedSeq
         IN /\ g_todo = <<>>
            /\ Len(g_func_defs) = nodes + Len(HelperFunctions)
            /\ SubSeq(g_func_defs, nodes + 1, Len(g_func_defs)) = HelperFunctions
            /\ {exited[k].path : k \in DOMAIN exited} = NodePaths
            /\ \A k \in DOMAIN exited :
                 IsPrefix(FuncName(exited[k].path) \o <<"() {", NL>>, g_func_defs[k])
            /\ g_stdout = header \o Join(<<NL>>, g_func_defs) \o footer

\* a generation that failed after the functions of some nodes were generated
C11_Witness ==
    /\ g_pc = "failed" /\ g_error = "AttributeError"
    /\ g_func_defs # <<>>
    /\ g_stdout = <<>>

\* ---- exclusion clauses, read back from the generated text
\* the switches of a node that the script offers
Visible(path) ==
    {si \in Info(Node(g_tree, path)).switches : si.group # "Hidden-switches"}
\* a declares that it excludes b
Excludes(a, b) == Range(a.excludes) \cap Range(b.names) # {}
\* where the names of a switch stand in a function, just before "[help]
NamesAt(text, si) ==
    LET joined == readd_dashes_and_join(si.names, ",")
        shown == (IF Len(si.names) > 1 THEN <<"{">> \o joined \o <<"}">> ELSE joined)
                 \o <<DQ, "[">>
    IN {i \in DOMAIN text :
          i + Len(shown) - 1 <= Len(text) /\ SubSeq(text, i, i + Len(shown) - 1) = shown}
\* the switch names listed in the '(...)' clause in front of a switch's names
ClauseNames(text, si) ==
    LET i == CHOOSE k \in NamesAt(text, si) : TRUE
        j == IF i > 2 /\ text[i - 1] = "*" /\ text[i - 2] = BS THEN i - 2 ELSE i
    IN IF j > 1 /\ text[j - 1] = ")'"
       THEN LET open == CHOOSE k \in 1..(j - 1) :
                            /\ text[k] = "'("
                            /\ \A m \in (k + 1)..(j - 1) : text[m] # "'("
            IN {text[m] : m \in (open + 1)..(j - 2)} \ {"-", "--", " "}
       ELSE {}

\* C12: in a printed script, whenever one visible switch of a node excludes
\* another, each of the two is rendered once with an exclusion clause that
\* lists the other.
C12_ExclusionSymmetric ==
    g_pc = "printed" =>
        \A q \in NodePaths : \A a \in Visible(q) : \A b \in Visible(q) \ {a} :
            (Excludes(a, b) \/ Excludes(b, a)) =>
                /\ Cardinality(NamesAt(GeneratedFor(q), a)) = 1
                /\ Cardinality(NamesAt(GeneratedFor(q), b)) = 1
                /\ Range(b.names) \subseteq ClauseNames(GeneratedFor(q), a)
                /\ Range(a.names) \subseteq ClauseNames(GeneratedFor(q), b)

\* the name a generated function is defined under
DefinedName(def) == SubSeq(def, 1, Find(def, "() {"))
\* the functions of the command nodes, without the helpers
NodeFunctions == SubSeq(g_func_defs, 1, Len(ExitedSeq))

\* C13: in a printed script no two command nodes have functions of the same
\* name (sibling names are unique in every tree, and some contain '_').
C13_UniqueFunctionNames ==
    g_pc = "printed" =>
        LET defs == NodeFunctions
        IN /\ \A p \in NodePaths : \A q \in NodePaths :
                p # q => FuncName(p) # FuncName(q)
           /\ \A i \in DOMAIN defs : \A j \in DOMAIN defs :
                i # j => DefinedName(defs[i]) # DefinedName(defs[j])

\* how often a switch is offered by the k-th generated function
Offered(k, si) == Cardinality(NamesAt(g_func_defs[k], si))
TableOf(path) == Info(Node(g_tree, path)).switches

\* C14 as stated: in a printed script no switch of the group "Hidden" is in
\* a node's function, and every switch of any other group is there exactly
\* once.
C14_AsStated ==
    g_pc = "printed" =>
        LET exited == ExitedSeq
        IN \A k \in DOMAIN exited : \A si \in TableOf(exited[k].path) :
               Offered(k, si) = IF si.group = "Hidden" THEN 0 ELSE 1

\* C14, amended: in a printed script no switch of the group "Hidden-switches"
\* is in a node's function, every switch of any other group (one named
\* "Hidden" too) is there exactly once, and --complete is offered by no
\* generated function.
C14_HiddenSwitchesOmitted ==
    g_pc = "printed" =>
        LET exited == ExitedSeq
        IN \A k \in DOMAIN exited :
               /\ \A si \in TableOf(exited[k].path) :
                    Offered(k, si) = IF si.group = "Hidden-switches" THEN 0 ELSE 1
               /\ "complete" \notin Range(g_func_defs[k])

\* a printed script of a tree with the --complete switch at one node and a
\* switch of the group "Hidden" at another
C14_Witness ==
    /\ g_pc = "printed"
    /\ \E p \in NodePaths : SwComplete \in TableOf(p)
    /\ \E q \in NodePaths : SwQuiet \in TableOf(q) /\ "quiet" \in Range(GeneratedFor(q))

====
